---- MODULE Spec2Model ----
(***************************************************************************)
(* The virtual file system of the DOS simulator (src/data/filesystem.py,   *)
(* src/data/utils.py) as a state machine.                                  *)
(*                                                                         *)
(* Python strings that the code takes apart (paths, names) are sequences   *)
(* of one-character strings, so that parse_path, os.path.split and         *)
(* is_valid_filename are computed character by character.  File contents   *)
(* are only stored, returned and measured by the code; a content is a      *)
(* sequence of chunks [s, n], the text s repeated n times, so that         *)
(* contents as long as the whole disk can be written.                      *)
(*                                                                         *)
(* The tree is the nested dictionary of the code: a directory's "content"  *)
(* is an insertion-ordered mapping, modelled as a sequence of              *)
(* [key, node] pairs.  A Python reference to a node is the sequence of     *)
(* keys that leads to it from the root.                                    *)
(***************************************************************************)
EXTENDS Integers, Sequences, FiniteSets, TLC

VARIABLES
    platform,       \* which os.path the interpreter provides: "nt" or "posix"
    root,           \* FileSystem.root
    current_path,   \* FileSystem.current_path
    total_space,    \* FileSystem.total_space
    used_space,     \* FileSystem.used_space
    state_file,     \* the contents of the file dos_state.json
    utils_call      \* the last call of a function of utils.py: [fn, arg, ret]

vars == <<platform, root, current_path, total_space, used_space, state_file,
          utils_call>>

---------------------------------------------------------------------------
(* Bounds of the model *)

MaxNodes == 3       \* entries in the tree below the root
MaxDepth == 3       \* segments of current_path
MaxPathLen == 3     \* characters of a path given to parse_path
MaxShortName == 2   \* characters of a short name given to is_valid_filename

---------------------------------------------------------------------------
(* Strings *)

BSL == "\\"
FSL == "/"

RECURSIVE Join(_, _)
\* sep.join(parts)
Join(parts, sep) ==
    IF parts = <<>> THEN <<>>
    ELSE IF Len(parts) = 1 THEN parts[1]
    ELSE parts[1] \o <<sep>> \o Join(Tail(parts), sep)

\* s.replace(old, new) for single characters
Replace(s, old, new) == [i \in 1..Len(s) |-> IF s[i] = old THEN new ELSE s[i]]

RECURSIVE SplitFrom(_, _, _, _)
SplitFrom(s, sep, i, cur) ==
    IF i > Len(s) THEN <<cur>>
    ELSE IF s[i] = sep THEN <<cur>> \o SplitFrom(s, sep, i + 1, <<>>)
    ELSE SplitFrom(s, sep, i + 1, Append(cur, s[i]))

\* s.split(sep): always at least one part
Split(s, sep) == SplitFrom(s, sep, 1, <<>>)

Contains(s, ch) == \E i \in 1..Len(s) : s[i] = ch

\* str.upper() on the characters the model uses
UpperChar(ch) ==
    CASE ch = "a" -> "A"
      [] ch = "c" -> "C"
      [] ch = "f" -> "F"
      [] ch = "g" -> "G"
      [] OTHER -> ch

Upper(s) == [i \in 1..Len(s) |-> UpperChar(s[i])]

\* s.startswith("C:")
StartsWithDrive(s) == Len(s) >= 2 /\ s[1] = "C" /\ s[2] = ":"

RECURSIVE RStrip(_, _)
\* s.rstrip(chars)
RStrip(s, chars) ==
    IF s # <<>> /\ s[Len(s)] \in chars THEN RStrip(SubSeq(s, 1, Len(s) - 1), chars)
    ELSE s

RECURSIVE LastSepIndex(_, _, _)
\* the index just beyond the last character of s[1..i] that is in seps
LastSepIndex(s, seps, i) ==
    IF i = 0 \/ s[i] \in seps THEN i ELSE LastSepIndex(s, seps, i - 1)

---------------------------------------------------------------------------
(* src/data/utils.py *)

parse_path(path) ==
    IF path = <<>> THEN <<>>
    ELSE LET normalized == Replace(path, FSL, BSL)
             parts == Split(normalized, BSL)
         IN  IF Contains(parts[1], ":")
             THEN LET drive == Upper(parts[1])
                  IN  [parts EXCEPT ![1] = IF Len(drive) > 2 THEN SubSeq(drive, 1, 2)
                                           ELSE drive]
             ELSE parts

InvalidChars == {"<", ">", ":", "\"", "/", "\\", "|", "?", "*"}

MaxNameLen == 255

\* is_valid_filename with the limit tested as "len(filename) >= 255"
is_valid_filename_below_limit(filename) ==
    IF filename = <<>> \/ filename = <<".">> \/ filename = <<".", ".">> THEN FALSE
    ELSE IF \E i \in 1..Len(filename) : filename[i] \in InvalidChars THEN FALSE
    ELSE IF Len(filename) >= MaxNameLen THEN FALSE
    ELSE TRUE

is_valid_filename(filename) ==
    IF filename = <<>> \/ filename = <<".">> \/ filename = <<".", ".">> THEN FALSE
    ELSE IF \E i \in 1..Len(filename) : filename[i] \in InvalidChars THEN FALSE
    ELSE IF Len(filename) > MaxNameLen THEN FALSE
    ELSE TRUE

---------------------------------------------------------------------------
(* os.path.split, as the two builds of the interpreter provide it *)

\* posixpath.split
posix_split(p) ==
    LET i == LastSepIndex(p, {FSL}, Len(p))
        head == SubSeq(p, 1, i)
        tail == SubSeq(p, i + 1, Len(p))
    IN  IF head # <<>> /\ \E k \in 1..Len(head) : head[k] # FSL
        THEN <<RStrip(head, {FSL}), tail>>
        ELSE <<head, tail>>

\* ntpath.splitdrive for paths that do not start with two separators
nt_splitdrive(p) ==
    IF Len(p) >= 2 /\ p[2] = ":" THEN <<SubSeq(p, 1, 2), SubSeq(p, 3, Len(p))>>
    ELSE <<(<<>>), p>>

\* ntpath.split
nt_split(p) ==
    LET dp == nt_splitdrive(p)
        q == dp[2]
        i == LastSepIndex(q, {BSL, FSL}, Len(q))
        head == SubSeq(q, 1, i)
        tail == SubSeq(q, i + 1, Len(q))
        stripped == RStrip(head, {BSL, FSL})
    IN  <<dp[1] \o (IF stripped # <<>> THEN stripped ELSE head), tail>>

os_path_split(p) == IF platform = "nt" THEN nt_split(p) ELSE posix_split(p)

---------------------------------------------------------------------------
(* Names and contents *)

DRIVE == <<"C", ":">>
DOS == <<"D", "O", "S">>
README_TXT == <<"R", "E", "A", "D", "M", "E", ".", "T", "X", "T">>

\* a content: the text s, n times
Text(s) == <<[s |-> s, n |-> 1]>>
Repeat(s, n) == <<[s |-> s, n |-> n]>>

RECURSIVE len_content(_)
\* len(content)
len_content(c) ==
    IF c = <<>> THEN 0 ELSE Len(c[1].s) * c[1].n + len_content(Tail(c))

README_CONTENT ==
    Text("Welcome to DOS-Simulator!\n\nThis is a Python-based simulation of an MS-DOS like environment.\nType HELP to see available commands.\n\nEnjoy exploring the virtual DOS system!")

README_SIZE == 177

---------------------------------------------------------------------------
(* The nested dictionary *)

NewDir(name) == [type |-> "dir", name |-> name, content |-> <<>>]
NewFile(name, size, content) ==
    [type |-> "file", name |-> name, size |-> size, content |-> content]

\* position of key in an ordered mapping, 0 when absent
IndexOf(d, key) ==
    IF \E i \in 1..Len(d) : d[i].key = key
    THEN CHOOSE i \in 1..Len(d) : d[i].key = key
    ELSE 0

\* key in d
HasKey(d, key) == IndexOf(d, key) # 0

\* d[key]
Get(d, key) == d[IndexOf(d, key)].node

\* d[key] = node: an existing key keeps its position, a new key goes last
DictSet(d, key, node) ==
    IF HasKey(d, key) THEN [d EXCEPT ![IndexOf(d, key)].node = node]
    ELSE Append(d, [key |-> key, node |-> node])

\* del d[key]
DictDel(d, key) ==
    LET i == IndexOf(d, key)
    IN  SubSeq(d, 1, i - 1) \o SubSeq(d, i + 1, Len(d))

RECURSIVE NodeAt(_, _)
\* the node a reference denotes
NodeAt(node, loc) ==
    IF loc = <<>> THEN node ELSE NodeAt(Get(node.content, loc[1]), Tail(loc))

RECURSIVE SetAt(_, _, _)
\* the tree after the node a reference denotes has been given new fields
SetAt(node, loc, new) ==
    IF loc = <<>> THEN new
    ELSE [node EXCEPT !.content =
             DictSet(node.content, loc[1],
                     SetAt(Get(node.content, loc[1]), Tail(loc), new))]

RECURSIVE calculate_used_space(_)
RECURSIVE SumUsed(_, _)
SumUsed(d, i) ==
    IF i > Len(d) THEN 0 ELSE calculate_used_space(d[i].node) + SumUsed(d, i + 1)

calculate_used_space(node) ==
    IF node.type = "file" THEN node.size ELSE SumUsed(node.content, 1)

RECURSIVE CountNodes(_)
RECURSIVE CountIn(_, _)
CountIn(d, i) ==
    IF i > Len(d) THEN 0 ELSE 1 + CountNodes(d[i].node) + CountIn(d, i + 1)

\* entries below a node
CountNodes(node) ==
    IF node.type = "file" THEN 0 ELSE CountIn(node.content, 1)

---------------------------------------------------------------------------
(* FileSystem._get_node_at_path                                            *)
(* The result is [kind, loc, root]: kind "node" with the reference loc,    *)
(* kind "none" for None, kind "fault" for the TypeError raised when None   *)
(* is subscripted; root is the tree after the directories created on the   *)
(* way.                                                                    *)

Found(rt, loc) == [kind |-> "node", loc |-> loc, root |-> rt]
Absent(rt) == [kind |-> "none", loc |-> <<>>, root |-> rt]
Fault(rt) == [kind |-> "fault", loc |-> <<>>, root |-> rt]

RECURSIVE TraverseCreatingLast(_, _, _, _, _)
\* the loop with "create_dirs and i < len(parts)": the last part is created too
TraverseCreatingLast(rt, cur, parts, i, create_dirs) ==
    IF i > Len(parts) THEN [cur EXCEPT !.root = rt]
    ELSE LET part == parts[i] IN
         IF part = <<>> THEN TraverseCreatingLast(rt, cur, parts, i + 1, create_dirs)
         ELSE IF cur.kind = "none" THEN Fault(rt)
         ELSE IF NodeAt(rt, cur.loc).type # "dir" THEN Absent(rt)
         ELSE IF ~HasKey(NodeAt(rt, cur.loc).content, part)
              THEN IF create_dirs
                   THEN LET here == NodeAt(rt, cur.loc)
                            rt2 == SetAt(rt, cur.loc,
                                     [here EXCEPT !.content =
                                        DictSet(here.content, part, NewDir(part))])
                        IN  TraverseCreatingLast(rt2, Found(rt2, Append(cur.loc, part)),
                                                 parts, i + 1, create_dirs)
                   ELSE Absent(rt)
              ELSE TraverseCreatingLast(rt, Found(rt, Append(cur.loc, part)),
                                        parts, i + 1, create_dirs)

RECURSIVE Traverse(_, _, _, _, _)
\* the loop over parts[i..], current being cur
Traverse(rt, cur, parts, i, create_dirs) ==
    IF i > Len(parts) THEN [cur EXCEPT !.root = rt]
    ELSE LET part == parts[i] IN
         IF part = <<>> THEN Traverse(rt, cur, parts, i + 1, create_dirs)
         ELSE IF cur.kind = "none" THEN Fault(rt)
         ELSE IF NodeAt(rt, cur.loc).type # "dir" THEN Absent(rt)
         ELSE IF ~HasKey(NodeAt(rt, cur.loc).content, part)
              THEN IF create_dirs /\ i < Len(parts)
                   THEN LET here == NodeAt(rt, cur.loc)
                            rt2 == SetAt(rt, cur.loc,
                                     [here EXCEPT !.content =
                                        DictSet(here.content, part, NewDir(part))])
                        IN  Traverse(rt2, Found(rt2, Append(cur.loc, part)),
                                     parts, i + 1, create_dirs)
                   ELSE Absent(rt)
              ELSE Traverse(rt, Found(rt, Append(cur.loc, part)),
                            parts, i + 1, create_dirs)

RECURSIVE get_node_at_path_first_token(_, _, _, _)
\* _get_node_at_path dropping "." only where it is the first part of the path
get_node_at_path_first_token(rt, cp, path, create_dirs) ==
    IF path = <<>> \/ path = DRIVE \/ path = DRIVE \o <<BSL>> THEN Found(rt, <<>>)
    ELSE LET parts == parse_path(path) IN
         IF parts[1] = DRIVE
         THEN Traverse(rt, Found(rt, <<>>), Tail(parts), 1, create_dirs)
         ELSE LET current == get_node_at_path_first_token(rt, cp, Join(cp, BSL), FALSE)
                  anchor == IF parts[1] = <<".", ".">>
                            THEN IF Len(cp) > 1
                                 THEN get_node_at_path_first_token(rt, cp,
                                        Join(SubSeq(cp, 1, Len(cp) - 1), BSL), FALSE)
                                 ELSE Found(rt, <<>>)
                            ELSE current
                  parts2 == IF parts[1] = <<".", ".">> \/ parts[1] = <<".">>
                            THEN Tail(parts) ELSE parts
              IN  IF current.kind = "fault" \/ anchor.kind = "fault" THEN Fault(rt)
                  ELSE Traverse(rt, anchor, parts2, 1, create_dirs)

RECURSIVE get_node_at_path(_, _, _, _)
get_node_at_path(rt, cp, path, create_dirs) ==
    IF path = <<>> \/ path = DRIVE \/ path = DRIVE \o <<BSL>> THEN Found(rt, <<>>)
    ELSE LET parts == parse_path(path) IN
         IF parts[1] = DRIVE
         THEN Traverse(rt, Found(rt, <<>>), Tail(parts), 1, create_dirs)
         ELSE LET current == get_node_at_path(rt, cp, Join(cp, BSL), FALSE)
                  anchor == IF parts[1] = <<".", ".">>
                            THEN IF Len(cp) > 1
                                 THEN get_node_at_path(rt, cp,
                                        Join(SubSeq(cp, 1, Len(cp) - 1), BSL), FALSE)
                                 ELSE Found(rt, <<>>)
                            ELSE current
                  parts1 == IF parts[1] = <<".", ".">> THEN Tail(parts) ELSE parts
                  parts2 == IF parts1 # <<>> /\ parts1[1] = <<".">>
                            THEN Tail(parts1) ELSE parts1
              IN  IF current.kind = "fault" \/ anchor.kind = "fault" THEN Fault(rt)
                  ELSE Traverse(rt, anchor, parts2, 1, create_dirs)

get_current_node(rt, cp) == get_node_at_path(rt, cp, Join(cp, BSL), FALSE)

resolve_path(rt, cp, path) == get_node_at_path(rt, cp, path, FALSE)

get_current_path(cp) == Join(cp, BSL)


---------------------------------------------------------------------------
(* The public operations.  Each is the outcome of one call in the state    *)
(* (rt, cp): the value returned or the exception raised, and the fields    *)
(* the call leaves behind.                                                 *)

DOT == <<".">>
DOTDOT == <<".", ".">>

\* dirname or "."
DirOrDot(dirname) == IF dirname = <<>> THEN DOT ELSE dirname

\* the pop under "if len(self.current_path) > 2"
PopIfDeeperThanTwo(cp) == IF Len(cp) > 2 THEN SubSeq(cp, 1, Len(cp) - 1) ELSE cp

\* self.current_path.pop() under "if len(self.current_path) > 1"
PopIfDeeper(cp) == IF Len(cp) > 1 THEN SubSeq(cp, 1, Len(cp) - 1) ELSE cp

RECURSIVE ApplyParts(_, _, _)
\* the loop of change_directory over the parts of a relative path
ApplyParts(cp, parts, i) ==
    IF i > Len(parts) THEN cp
    ELSE IF parts[i] = DOTDOT THEN ApplyParts(PopIfDeeper(cp), parts, i + 1)
    ELSE IF parts[i] # DOT /\ parts[i] # <<>>
         THEN ApplyParts(Append(cp, parts[i]), parts, i + 1)
    ELSE ApplyParts(cp, parts, i + 1)

\* the new current_path of a change_directory that found a directory
UpdatedPath(cp, path) ==
    IF path = DOTDOT THEN PopIfDeeper(cp)
    ELSE IF path = DOT THEN cp
    ELSE IF StartsWithDrive(path)
         THEN IF parse_path(path)[1] = DRIVE THEN parse_path(path) ELSE cp
    ELSE ApplyParts(cp, parse_path(path), 1)

\* change_directory without the test of the node's type
change_directory_any_node(rt, cp, path) ==
    LET new_node == get_node_at_path(rt, cp, path, FALSE) IN
    IF new_node.kind = "fault" THEN [ret |-> "TypeError", root |-> rt, cp |-> cp]
    ELSE IF new_node.kind = "none" THEN [ret |-> "False", root |-> rt, cp |-> cp]
    ELSE [ret |-> "True", root |-> rt, cp |-> UpdatedPath(cp, path)]

change_directory(rt, cp, path) ==
    LET new_node == get_node_at_path(rt, cp, path, FALSE) IN
    IF new_node.kind = "fault" THEN [ret |-> "TypeError", root |-> rt, cp |-> cp]
    ELSE IF new_node.kind = "none" \/ NodeAt(rt, new_node.loc).type # "dir"
         THEN [ret |-> "False", root |-> rt, cp |-> cp]
    ELSE [ret |-> "True", root |-> rt, cp |-> UpdatedPath(cp, path)]

\* create_directory resolving its parent with create_dirs set
create_directory_with_parents(rt, cp, path) ==
    LET sp == os_path_split(path)
        dirname == sp[1]
        basename == sp[2]
        parent == get_node_at_path(rt, cp, DirOrDot(dirname), TRUE)
        rt1 == parent.root
    IN  IF ~is_valid_filename(basename) THEN [ret |-> "False", root |-> rt]
        ELSE IF parent.kind = "fault" THEN [ret |-> "TypeError", root |-> rt1]
        ELSE IF parent.kind = "none" \/ NodeAt(rt1, parent.loc).type # "dir"
             THEN [ret |-> "False", root |-> rt1]
        ELSE LET pn == NodeAt(rt1, parent.loc) IN
             IF HasKey(pn.content, basename) THEN [ret |-> "False", root |-> rt1]
             ELSE [ret |-> "True",
                   root |-> SetAt(rt1, parent.loc,
                              [pn EXCEPT !.content =
                                 DictSet(pn.content, basename, NewDir(basename))])]

create_directory(rt, cp, path) ==
    LET sp == os_path_split(path)
        dirname == sp[1]
        basename == sp[2]
        parent == get_node_at_path(rt, cp, DirOrDot(dirname), FALSE)
    IN  IF ~is_valid_filename(basename) THEN [ret |-> "False", root |-> rt]
        ELSE IF parent.kind = "fault" THEN [ret |-> "TypeError", root |-> rt]
        ELSE IF parent.kind = "none" \/ NodeAt(rt, parent.loc).type # "dir"
             THEN [ret |-> "False", root |-> rt]
        ELSE LET pn == NodeAt(rt, parent.loc) IN
             IF HasKey(pn.content, basename) THEN [ret |-> "False", root |-> rt]
             ELSE [ret |-> "True",
                   root |-> SetAt(rt, parent.loc,
                              [pn EXCEPT !.content =
                                 DictSet(pn.content, basename, NewDir(basename))])]

\* remove_directory without the check that the directory is empty
remove_directory_recursive(rt, cp, path) ==
    LET sp == os_path_split(path)
        dirname == sp[1]
        basename == sp[2]
        parent == get_node_at_path(rt, cp, DirOrDot(dirname), FALSE)
    IN  IF parent.kind = "fault" THEN [ret |-> "TypeError", root |-> rt]
        ELSE IF parent.kind = "none" \/ NodeAt(rt, parent.loc).type # "dir"
             THEN [ret |-> "False", root |-> rt]
        ELSE LET pn == NodeAt(rt, parent.loc) IN
             IF ~HasKey(pn.content, basename) THEN [ret |-> "False", root |-> rt]
             ELSE IF Get(pn.content, basename).type # "dir"
                  THEN [ret |-> "False", root |-> rt]
             ELSE [ret |-> "True",
                   root |-> SetAt(rt, parent.loc,
                              [pn EXCEPT !.content = DictDel(pn.content, basename)])]

remove_directory(rt, cp, path) ==
    LET sp == os_path_split(path)
        dirname == sp[1]
        basename == sp[2]
        parent == get_node_at_path(rt, cp, DirOrDot(dirname), FALSE)
    IN  IF parent.kind = "fault" THEN [ret |-> "TypeError", root |-> rt]
        ELSE IF parent.kind = "none" \/ NodeAt(rt, parent.loc).type # "dir"
             THEN [ret |-> "False", root |-> rt]
        ELSE LET pn == NodeAt(rt, parent.loc) IN
             IF ~HasKey(pn.content, basename) THEN [ret |-> "False", root |-> rt]
             ELSE IF Get(pn.content, basename).type # "dir"
                  THEN [ret |-> "False", root |-> rt]
             ELSE IF Len(Get(pn.content, basename).content) > 0
                  THEN [ret |-> "False", root |-> rt]
             ELSE [ret |-> "True",
                   root |-> SetAt(rt, parent.loc,
                              [pn EXCEPT !.content = DictDel(pn.content, basename)])]

\* the result is [kind, content]: kind "content", "None", or "TypeError"
read_file(rt, cp, path) ==
    LET node == get_node_at_path(rt, cp, path, FALSE) IN
    IF node.kind = "fault" THEN [kind |-> "TypeError", content |-> <<>>]
    ELSE IF node.kind = "none" \/ NodeAt(rt, node.loc).type # "file"
         THEN [kind |-> "None", content |-> <<>>]
    ELSE [kind |-> "content", content |-> NodeAt(rt, node.loc).content]

\* get_free_space answering from the used_space field
get_free_space_cached(rt, total) == total - used_space

\* get_free_space, which also refreshes used_space
get_free_space(rt, total) == total - calculate_used_space(rt)

\* "Create/update the file": the tree after the file is stored in the
\* directory at loc
StoreFile(rt, loc, basename, content) ==
    LET pn == NodeAt(rt, loc)
        is_file == HasKey(pn.content, basename)
                   /\ Get(pn.content, basename).type = "file"
    IN  SetAt(rt, loc,
          [pn EXCEPT !.content =
             DictSet(pn.content, basename,
                IF is_file
                THEN [Get(pn.content, basename) EXCEPT
                         !.content = content, !.size = len_content(content)]
                ELSE NewFile(basename, len_content(content), content))])

\* "Check disk space": existing_size
ExistingSize(rt, loc, basename) ==
    LET pn == NodeAt(rt, loc) IN
    IF HasKey(pn.content, basename) /\ Get(pn.content, basename).type = "file"
    THEN Get(pn.content, basename).size ELSE 0

\* write_file from the point where the parent directory has been resolved
WriteInto(rt, total, used, parent, basename, content) ==
    IF ~is_valid_filename(basename)
    THEN [ret |-> "ValueError", root |-> rt, used |-> used]
    ELSE IF parent.kind = "fault"
         THEN [ret |-> "TypeError", root |-> parent.root, used |-> used]
    ELSE IF parent.kind = "none" \/ NodeAt(parent.root, parent.loc).type # "dir"
         THEN [ret |-> "ValueError", root |-> parent.root, used |-> used]
    ELSE IF get_free_space(parent.root, total)
              + ExistingSize(parent.root, parent.loc, basename) < len_content(content)
         THEN [ret |-> "IOError", root |-> parent.root,
               used |-> calculate_used_space(parent.root)]
    ELSE [ret |-> "True", used |-> calculate_used_space(parent.root),
          root |-> StoreFile(parent.root, parent.loc, basename, content)]

\* write_file without the check of the disk space
write_file_unchecked(rt, cp, total, used, path, content) ==
    LET sp == os_path_split(path)
        dirname == sp[1]
        basename == sp[2]
        parent == get_node_at_path(rt, cp, DirOrDot(dirname), TRUE)
        rt1 == parent.root
    IN  IF ~is_valid_filename(basename)
        THEN [ret |-> "ValueError", root |-> rt, used |-> used]
        ELSE IF parent.kind = "fault"
             THEN [ret |-> "TypeError", root |-> rt1, used |-> used]
        ELSE IF parent.kind = "none" \/ NodeAt(rt1, parent.loc).type # "dir"
             THEN [ret |-> "ValueError", root |-> rt1, used |-> used]
        ELSE [ret |-> "True", used |-> calculate_used_space(rt1),
              root |-> StoreFile(rt1, parent.loc, basename, content)]

\* the result is [ret, root, used]: ret "True", or the exception raised
write_file(rt, cp, total, used, path, content) ==
    LET sp == os_path_split(path)
        dirname == sp[1]
        basename == sp[2]
    IN  WriteInto(rt, total, used,
                  get_node_at_path(rt, cp, DirOrDot(dirname), TRUE), basename, content)

\* "return True" after the write, "return False" on any exception of it
CopyResult(w) == [w EXCEPT !.ret = IF w.ret = "True" THEN "True" ELSE "False"]

\* copy_file from the point where the source has been read
CopyContent(rt, cp, total, used, destination, content) ==
    IF content.kind = "TypeError" THEN [ret |-> "TypeError", root |-> rt, used |-> used]
    ELSE IF content.kind = "None" THEN [ret |-> "False", root |-> rt, used |-> used]
    ELSE CopyResult(write_file(rt, cp, total, used, destination, content.content))

copy_file(rt, cp, total, used, source, destination) ==
    CopyContent(rt, cp, total, used, destination, read_file(rt, cp, source))

delete_file(rt, cp, path) ==
    LET sp == os_path_split(path)
        dirname == sp[1]
        basename == sp[2]
        parent == get_node_at_path(rt, cp, DirOrDot(dirname), FALSE)
    IN  IF parent.kind = "fault" THEN [ret |-> "TypeError", root |-> rt]
        ELSE IF parent.kind = "none" \/ NodeAt(rt, parent.loc).type # "dir"
             THEN [ret |-> "False", root |-> rt]
        ELSE LET pn == NodeAt(rt, parent.loc) IN
             IF ~HasKey(pn.content, basename) THEN [ret |-> "False", root |-> rt]
             ELSE IF Get(pn.content, basename).type # "file"
                  THEN [ret |-> "False", root |-> rt]
             ELSE [ret |-> "True",
                   root |-> SetAt(rt, parent.loc,
                              [pn EXCEPT !.content = DictDel(pn.content, basename)])]

\* a rename that moves the entry to its new key and leaves its name field
rename_file_keeping_name(rt, cp, oldpath, newname) ==
    LET sp == os_path_split(oldpath)
        dirname == sp[1]
        oldname == sp[2]
        parent == get_node_at_path(rt, cp, DirOrDot(dirname), FALSE)
    IN  IF ~is_valid_filename(newname) THEN [ret |-> "False", root |-> rt]
        ELSE IF parent.kind = "fault" THEN [ret |-> "TypeError", root |-> rt]
        ELSE IF parent.kind = "none" \/ NodeAt(rt, parent.loc).type # "dir"
             THEN [ret |-> "False", root |-> rt]
        ELSE LET pn == NodeAt(rt, parent.loc) IN
             IF ~HasKey(pn.content, oldname) THEN [ret |-> "False", root |-> rt]
             ELSE IF HasKey(pn.content, newname) THEN [ret |-> "False", root |-> rt]
             ELSE LET node == Get(pn.content, oldname)
                  IN  [ret |-> "True",
                       root |-> SetAt(rt, parent.loc,
                                  [pn EXCEPT !.content =
                                     DictDel(DictSet(pn.content, newname, node),
                                             oldname)])]

rename_file(rt, cp, oldpath, newname) ==
    LET sp == os_path_split(oldpath)
        dirname == sp[1]
        oldname == sp[2]
        parent == get_node_at_path(rt, cp, DirOrDot(dirname), FALSE)
    IN  IF ~is_valid_filename(newname) THEN [ret |-> "False", root |-> rt]
        ELSE IF parent.kind = "fault" THEN [ret |-> "TypeError", root |-> rt]
        ELSE IF parent.kind = "none" \/ NodeAt(rt, parent.loc).type # "dir"
             THEN [ret |-> "False", root |-> rt]
        ELSE LET pn == NodeAt(rt, parent.loc) IN
             IF ~HasKey(pn.content, oldname) THEN [ret |-> "False", root |-> rt]
             ELSE IF HasKey(pn.content, newname) THEN [ret |-> "False", root |-> rt]
             ELSE LET node == [Get(pn.content, oldname) EXCEPT !.name = newname]
                  IN  [ret |-> "True",
                       root |-> SetAt(rt, parent.loc,
                                  [pn EXCEPT !.content =
                                     DictDel(DictSet(pn.content, newname, node),
                                             oldname)])]

get_full_path(cp, path) ==
    IF path = DOT THEN get_current_path(cp)
    ELSE IF StartsWithDrive(path) THEN path
    ELSE IF path = DOTDOT
         THEN IF Len(cp) > 1 THEN Join(SubSeq(cp, 1, Len(cp) - 1), BSL) ELSE DRIVE
    ELSE IF path # <<>> /\ path[1] = BSL THEN DRIVE \o path
    ELSE get_current_path(cp) \o <<BSL>> \o path

\* the entries list_directory returns for the children of a directory node
ChildEntries(node) ==
    [i \in 1..Len(node.content) |->
        [name |-> node.content[i].key,
         type |-> node.content[i].node.type,
         size |-> IF node.content[i].node.type = "file"
                  THEN node.content[i].node.size ELSE 0]]

\* the result is [kind, files]: kind "list" or "TypeError"
list_directory(rt, cp, path) ==
    LET node == get_node_at_path(rt, cp, path, FALSE)
        parent_node == IF path = DOT
                       THEN get_node_at_path(rt, cp, DOTDOT, FALSE)
                       ELSE get_node_at_path(rt, cp, os_path_split(path)[1], FALSE)
        dot == <<[name |-> DOT, type |-> "dir", size |-> 0]>>
        dotdot == IF path # DRIVE /\ path # DRIVE \o <<BSL>>
                  THEN <<[name |-> DOTDOT, type |-> "dir", size |-> 0]>>
                  ELSE <<>>
    IN  IF node.kind = "fault" THEN [kind |-> "TypeError", files |-> <<>>]
        ELSE IF node.kind = "none" \/ NodeAt(rt, node.loc).type # "dir"
             THEN [kind |-> "list", files |-> <<>>]
        ELSE IF dotdot # <<>> /\ parent_node.kind = "fault"
             THEN [kind |-> "TypeError", files |-> <<>>]
        ELSE [kind |-> "list",
              files |-> dot \o dotdot \o ChildEntries(NodeAt(rt, node.loc))]

\* the place in the tree of the node whose created and modified values the
\* ".." entry of list_directory carries: parent_node, or node where
\* parent_node is None
dotdot_stamps(rt, cp, path) ==
    LET node == get_node_at_path(rt, cp, path, FALSE)
        parent_node == IF path = DOT
                       THEN get_node_at_path(rt, cp, DOTDOT, FALSE)
                       ELSE get_node_at_path(rt, cp, os_path_split(path)[1], FALSE)
    IN  IF parent_node.kind = "node" THEN parent_node.loc ELSE node.loc

---------------------------------------------------------------------------
(* generate_tree.  A line is the concatenation prefix + branch + name: the *)
(* sequence of the pieces of the prefix, the branch and the characters of  *)
(* the name.  The result is [kind, lines]: kind "lines" or "TypeError".    *)

\* the box-drawing pieces, written in ASCII: U+251C U+2500 U+2500 U+2500,
\* U+2514 U+2500 U+2500 U+2500, U+2502 and three spaces, four spaces
BRANCH == "|---"
LAST_BRANCH == "L---"
BAR_INDENT == "|   "
INDENT == "    "

\* the characters of upper-cased names, in the order of their code points
CharOrder == <<".", ":", "A", "C", "D", "E", "F", "G", "I", "M", "N", "O", "R",
               "S", "T", "W", "X">>

CodePoint(ch) == CHOOSE i \in 1..Len(CharOrder) : CharOrder[i] = ch

RECURSIVE StrLess(_, _)
\* s < t for strings
StrLess(s, t) ==
    IF t = <<>> THEN FALSE
    ELSE IF s = <<>> THEN TRUE
    ELSE IF s[1] # t[1] THEN CodePoint(s[1]) < CodePoint(t[1])
    ELSE StrLess(Tail(s), Tail(t))

\* the first component of the sort key
TypeRank(item) == IF item.node.type = "dir" THEN 0 ELSE 1

\* key(a) < key(b) for the key (0 if dir else 1, name.upper())
KeyLess(a, b) ==
    \/ TypeRank(a) < TypeRank(b)
    \/ TypeRank(a) = TypeRank(b) /\ StrLess(Upper(a.key), Upper(b.key))

RECURSIVE InsertSorted(_, _)
\* x placed behind every item whose key is not greater than its own
InsertSorted(sorted, x) ==
    IF sorted = <<>> THEN <<x>>
    ELSE IF KeyLess(x, sorted[1]) THEN <<x>> \o sorted
    ELSE <<sorted[1]>> \o InsertSorted(Tail(sorted), x)

RECURSIVE SortItems(_, _)
\* items.sort(key=...): a stable sort of items[i..] into sorted
SortItems(items, sorted) ==
    IF items = <<>> THEN sorted
    ELSE SortItems(Tail(items), InsertSorted(sorted, items[1]))

\* "Get all directories and optionally files"
TreeItemsOf(node, show_files) ==
    SelectSeq(node.content,
              LAMBDA item : item.node.type = "dir"
                            \/ (show_files /\ item.node.type = "file"))

\* the path of the recursive call
SubPath(path, name) == IF path # DOT THEN path \o <<BSL>> \o name ELSE name

TreeLines(lines) == [kind |-> "lines", lines |-> lines]
TreeFault == [kind |-> "TypeError", lines |-> <<>>]

\* result.append(line); result.extend(subdir_tree); the rest of the loop
TreeExtend(line, subdir_tree, rest) ==
    IF subdir_tree.kind = "TypeError" \/ rest.kind = "TypeError" THEN TreeFault
    ELSE TreeLines(<<line>> \o subdir_tree.lines \o rest.lines)

RECURSIVE generate_tree(_, _, _, _, _)
RECURSIVE TreeLoop(_, _, _, _, _, _, _)
\* the loop over items[i..]
TreeLoop(rt, cp, path, show_files, prefix, items, i) ==
    IF i > Len(items) THEN TreeLines(<<>>)
    ELSE TreeExtend(
           prefix \o <<IF i = Len(items) THEN LAST_BRANCH ELSE BRANCH>> \o items[i].key,
           IF items[i].node.type = "dir"
           THEN generate_tree(rt, cp, SubPath(path, items[i].key), show_files,
                              Append(prefix, IF i = Len(items) THEN INDENT
                                             ELSE BAR_INDENT))
           ELSE TreeLines(<<>>),
           TreeLoop(rt, cp, path, show_files, prefix, items, i + 1))

\* generate_tree from the point where the path has been resolved
TreeOf(rt, cp, path, show_files, prefix, node) ==
    IF node.kind = "fault" THEN TreeFault
    ELSE IF node.kind = "none" \/ NodeAt(rt, node.loc).type # "dir"
         THEN TreeLines(<<>>)
    ELSE TreeLoop(rt, cp, path, show_files, prefix,
                  SortItems(TreeItemsOf(NodeAt(rt, node.loc), show_files), <<>>), 1)

generate_tree(rt, cp, path, show_files, prefix) ==
    TreeOf(rt, cp, path, show_files, prefix, get_node_at_path(rt, cp, path, FALSE))

---------------------------------------------------------------------------
(* save_state and load_state.  A file is absent, holds text that is not    *)
(* JSON, or holds a JSON value; a JSON object is the ordered sequence of   *)
(* its members.                                                            *)

NoFile == [kind |-> "absent"]
Malformed == [kind |-> "malformed"]
JsonFile(value) == [kind |-> "json", value |-> value]

JStr(s) == [j |-> "string", v |-> s]
JNum(n) == [j |-> "number", v |-> n]
JArr(items) == [j |-> "array", items |-> items]
JObj(members) == [j |-> "object", members |-> members]
Member(key, value) == [key |-> key, value |-> value]

RECURSIVE dump_node(_)
\* json.dump of an entry of the tree: the keys in the order of the dictionary
dump_node(node) ==
    IF node.type = "file"
    THEN JObj(<<Member("type", JStr(node.type)), Member("name", JStr(node.name)),
                Member("size", JNum(node.size)),
                Member("content", JStr(node.content))>>)
    ELSE JObj(<<Member("type", JStr(node.type)), Member("name", JStr(node.name)),
                Member("content",
                       JObj([i \in 1..Len(node.content) |->
                               Member(node.content[i].key,
                                      dump_node(node.content[i].node))]))>>)

\* a dump that records the root as the current directory, whatever it is
json_dump_at_root(rt, cp, total, used) ==
    JObj(<<Member("filesystem", dump_node(rt)),
           Member("current_path", JArr(<<JStr(DRIVE)>>)),
           Member("total_space", JNum(total)),
           Member("used_space", JNum(used))>>)

\* json.dump(state, f)
json_dump(rt, cp, total, used) ==
    JObj(<<Member("filesystem", dump_node(rt)),
           Member("current_path", JArr([i \in 1..Len(cp) |-> JStr(cp[i])])),
           Member("total_space", JNum(total)),
           Member("used_space", JNum(used))>>)

\* the value a JSON object gives a key: that of the last member with the key
LastValue(members, key) ==
    members[CHOOSE i \in 1..Len(members) :
               /\ members[i].key = key
               /\ \A k \in (i + 1)..Len(members) : members[k].key # key].value

MemberKeys(members) == { members[i].key : i \in 1..Len(members) }

RECURSIVE load_node(_)
RECURSIVE load_mapping(_, _, _)
\* the dictionary of children json.load builds from the members from i on
load_mapping(members, i, acc) ==
    IF i > Len(members) THEN acc
    ELSE load_mapping(members, i + 1,
                      DictSet(acc, members[i].key, load_node(members[i].value)))

\* the dictionary json.load builds for an entry of the tree
load_node(j) ==
    [key \in MemberKeys(j.members) |->
        IF key = "content" /\ LastValue(j.members, key).j = "object"
        THEN load_mapping(LastValue(j.members, key).members, 1, <<>>)
        ELSE LastValue(j.members, key).v]

\* json.load(f) of a file that holds a JSON object
json_load(j) ==
    [key \in MemberKeys(j.members) |->
        IF key = "filesystem" THEN load_node(LastValue(j.members, key))
        ELSE IF key = "current_path"
             THEN [i \in 1..Len(LastValue(j.members, key).items) |->
                      LastValue(j.members, key).items[i].v]
        ELSE LastValue(j.members, key).v]

\* save_state: the file it leaves
save_state(rt, cp, total, used) == JsonFile(json_dump(rt, cp, total, used))

\* the four assignments of load_state from the loaded dictionary, up to the
\* first key that is missing
AssignState(state, rt, cp, total, used) ==
    IF "filesystem" \notin DOMAIN state
    THEN [ret |-> "False", root |-> rt, cp |-> cp, total |-> total, used |-> used]
    ELSE IF "current_path" \notin DOMAIN state
    THEN [ret |-> "False", root |-> state.filesystem, cp |-> cp,
          total |-> total, used |-> used]
    ELSE IF "total_space" \notin DOMAIN state
    THEN [ret |-> "False", root |-> state.filesystem, cp |-> state.current_path,
          total |-> total, used |-> used]
    ELSE IF "used_space" \notin DOMAIN state
    THEN [ret |-> "False", root |-> state.filesystem, cp |-> state.current_path,
          total |-> state.total_space, used |-> used]
    ELSE [ret |-> "True", root |-> state.filesystem, cp |-> state.current_path,
          total |-> state.total_space, used |-> state.used_space]

\* the result is [ret, root, cp, total, used]
load_state(file, rt, cp, total, used) ==
    IF file.kind # "json" \/ file.value.j # "object"
    THEN [ret |-> "False", root |-> rt, cp |-> cp, total |-> total, used |-> used]
    ELSE AssignState(json_load(file.value), rt, cp, total, used)

---------------------------------------------------------------------------
(* The calls the model makes *)

NAME_A == <<"A">>
NAME_F == <<"f">>
NAME_N == <<"N">>

P_C_DOS == <<"C", ":", "/", "D", "O", "S">>             \* C:/DOS
P_c_DOS == <<"c", ":", "/", "D", "O", "S">>             \* c:/DOS
P_UP_DOS == <<".", ".", "/", "D", "O", "S">>            \* ../DOS
P_UP_A == <<".", ".", "/", "A">>                        \* ../A
P_README == DOS \o <<"/">> \o README_TXT                \* DOS/README.TXT
P_C_f == <<"C", ":", "f">>                              \* C:f
P_A_BF_f == <<"A", "\\", "/", "f">>                     \* A\/f
P_A_B_f == <<"A", "\\", "f">>                           \* A\f
P_A_A_f == <<"A", "/", "A", "/", "f">>                  \* A/A/f
P_C_B_DOS == <<"C", ":", "\\", "D", "O", "S">>          \* C:\DOS
P_DOS_UP_A_f == DOS \o <<"/", ".", ".", "/", "A", "/", "f">>   \* DOS/../A/f
P_DOS_B_README == DOS \o <<"\\">> \o README_TXT          \* DOS\README.TXT
P_README_N == P_README \o <<"/", "N">>                  \* DOS/README.TXT/N
P_N_A == <<"N", "/", "A">>                              \* N/A
P_N_N_A == <<"N", "/", "N", "/", "A">>                  \* N/N/A
P_UP_DOT == <<".", ".", "/", ".">>                      \* ../.
P_DOT_UP == <<".", "/", ".", ".">>                      \* ./..
P_UP_UP == <<".", ".", "/", ".", ".">>                  \* ../..

CdPaths == { <<>>, DOT, DOTDOT, DRIVE, DOS, NAME_A, P_C_DOS, P_c_DOS, P_README }
MkdirPaths == { NAME_A, P_C_DOS, DOTDOT }
RmdirPaths == { NAME_A, DOS, P_UP_A }
WritePaths == { NAME_F, DOS, P_C_f, P_A_BF_f, P_A_B_f, P_A_A_f, P_DOS_UP_A_f }
DeletePaths == { NAME_F, P_README, DOS }
RenamePaths == { P_UP_DOS, NAME_F, NAME_A }
NewNames == { NAME_A, DOTDOT }
CopySources == { P_README, NAME_F }
CopyDestinations == { NAME_F, P_A_BF_f }
ReadPaths == { NAME_F, P_C_f, P_README, DOS }
ListPaths == { DOT, DRIVE, DOS }
TreePaths == { <<>>, DOT, DOTDOT, DRIVE, DOS }
QueryPaths == { <<>>, DOT, DOTDOT, DRIVE, DOS, NAME_A, P_UP_DOS, <<BSL>> \o DOS,
                P_C_DOS, P_c_DOS, P_README, P_A_A_f }

\* the contents a call may write: a short text, the empty text, one that
\* fills the free space of a tree exactly, and one that is one character
\* too long for it
SHORT == Text("hi")
EMPTY == <<>>
Filling(rt, total) == Repeat("x", get_free_space(rt, total))
TooLong(rt, total) == Repeat("x", get_free_space(rt, total) + 1)

\* the calls of write_file under Spec
WriteCalls == { <<path, SHORT>> : path \in WritePaths }

\* the calls under SpecSpace: contents measured on the disk as constructed
SpaceWritePaths == { NAME_F, P_README, P_A_BF_f, DOS }
SpaceCdPaths == { DOS, DOTDOT }

SeedRoot ==
    [type |-> "dir", name |-> DRIVE, content |->
        <<[key |-> DOS, node |->
            [type |-> "dir", name |-> DOS, content |->
                <<[key |-> README_TXT, node |->
                    NewFile(README_TXT, README_SIZE, README_CONTENT)]>>]]>>]

SpaceContents ==
    { SHORT, Filling(SeedRoot, 10 * 1024 * 1024), TooLong(SeedRoot, 10 * 1024 * 1024) }

\* the calls under SpecPersist
PersistCdPaths == { DOS, DOTDOT }

\* a tree other than the seed: the root with the empty directory A
TreeA ==
    [type |-> "dir", name |-> DRIVE, content |->
        <<[key |-> NAME_A, node |-> NewDir(NAME_A)]>>]

\* a tree whose file f records size 5 for the content "hi"
TreeWrongSize ==
    [type |-> "dir", name |-> DRIVE, content |->
        <<[key |-> NAME_F, node |-> NewFile(NAME_F, 5, SHORT)]>>]

\* the file save_state would write for a 10 MB disk
SnapshotOf(tree, cp, used) == JsonFile(json_dump(tree, cp, 10 * 1024 * 1024, used))

\* the files load_state is given besides the one save_state wrote:
\*  1 a name no file has          2 text that is not JSON
\*  3 a JSON array                4 an object with the key "filesystem" only
\*  5 an object without the key "used_space"
\*  6 a snapshot whose root is a File
\*  7 a snapshot whose current_path names no entry of its tree
\*  8 a snapshot with a File whose size is not the length of its content
\*  9 a snapshot of the tree TreeA with the current directory A
SnapshotFiles ==
    << NoFile,
       Malformed,
       JsonFile(JArr(<<>>)),
       JsonFile(JObj(<<Member("filesystem", dump_node(TreeA))>>)),
       JsonFile(JObj(SubSeq(json_dump(TreeA, <<DRIVE, NAME_A>>, 10 * 1024 * 1024, 0).members,
                            1, 3))),
       SnapshotOf(NewFile(DRIVE, 2, SHORT), <<DRIVE>>, 2),
       SnapshotOf(TreeA, <<DRIVE, NAME_N>>, 0),
       SnapshotOf(TreeWrongSize, <<DRIVE>>, 5),
       SnapshotOf(TreeA, <<DRIVE, NAME_A>>, 0) >>

\* no function of utils.py has been called
NoCall == [fn |-> "none", arg |-> <<>>, ret |-> <<>>]

\* the strings of at most n characters of an alphabet
Strings(chars, n) == UNION { [1..k -> chars] : k \in 0..n }

\* the paths given to parse_path under SpecUtils
PathChars == {"a", "c", ":", "/", "\\"}
ParseInputs == Strings(PathChars, MaxPathLen)

\* the names given to is_valid_filename under SpecUtils: every short name
\* over the characters the validator names and two it does not, and names
\* around the limit of the length
NameChars == InvalidChars \cup {".", "a"}
LongName(n) == [i \in 1..n |-> "x"]
NameInputs ==
    Strings(NameChars, MaxShortName)
        \cup { LongName(n) : n \in (MaxNameLen - 1)..(MaxNameLen + 2) }
        \cup { Append(LongName(MaxNameLen - 1), "*") }

Init ==
    /\ platform \in {"nt", "posix"}
    /\ root = SeedRoot
    /\ current_path = <<DRIVE>>
    /\ total_space = 10 * 1024 * 1024
    /\ used_space = calculate_used_space(SeedRoot)
    /\ state_file = NoFile
    /\ utils_call = NoCall

ChangeDirectory(path) ==
    LET r == change_directory(root, current_path, path) IN
    /\ Len(r.cp) <= MaxDepth
    /\ current_path' = r.cp
    /\ UNCHANGED <<platform, root, total_space, used_space, state_file, utils_call>>

CreateDirectory(path) ==
    LET r == create_directory(root, current_path, path) IN
    /\ CountNodes(r.root) <= MaxNodes
    /\ root' = r.root
    /\ UNCHANGED <<platform, current_path, total_space, used_space, state_file, utils_call>>

RemoveDirectory(path) ==
    LET r == remove_directory(root, current_path, path) IN
    /\ root' = r.root
    /\ UNCHANGED <<platform, current_path, total_space, used_space, state_file, utils_call>>

WriteFile(path, content) ==
    LET r == write_file(root, current_path, total_space, used_space, path, content) IN
    /\ CountNodes(r.root) <= MaxNodes
    /\ root' = r.root
    /\ used_space' = r.used
    /\ UNCHANGED <<platform, current_path, total_space, state_file, utils_call>>

CopyFile(source, destination) ==
    LET r == copy_file(root, current_path, total_space, used_space,
                       source, destination) IN
    /\ CountNodes(r.root) <= MaxNodes
    /\ root' = r.root
    /\ used_space' = r.used
    /\ UNCHANGED <<platform, current_path, total_space, state_file, utils_call>>

DeleteFile(path) ==
    LET r == delete_file(root, current_path, path) IN
    /\ root' = r.root
    /\ UNCHANGED <<platform, current_path, total_space, used_space, state_file, utils_call>>

RenameFile(oldpath, newname) ==
    LET r == rename_file(root, current_path, oldpath, newname) IN
    /\ root' = r.root
    /\ UNCHANGED <<platform, current_path, total_space, used_space, state_file, utils_call>>

GetFreeSpace ==
    /\ used_space' = calculate_used_space(root)
    /\ UNCHANGED <<platform, root, current_path, total_space, state_file, utils_call>>

ReadFile(path) ==
    /\ read_file(root, current_path, path).kind \in {"content", "None", "TypeError"}
    /\ UNCHANGED <<platform, root, current_path, total_space, used_space, state_file, utils_call>>

ListDirectory(path) ==
    /\ list_directory(root, current_path, path).kind \in {"list", "TypeError"}
    /\ UNCHANGED <<platform, root, current_path, total_space, used_space, state_file, utils_call>>

\* a resolution that inserts the missing directories of its path
ResolvePathCreating(path) ==
    /\ root' = get_node_at_path(root, current_path, path, TRUE).root
    /\ UNCHANGED <<platform, current_path, total_space, used_space, state_file,
                   utils_call>>

ResolvePath(path) ==
    /\ resolve_path(root, current_path, path).kind \in {"node", "none", "fault"}
    /\ UNCHANGED <<platform, root, current_path, total_space, used_space, state_file,
                   utils_call>>

GetCurrentPath ==
    /\ get_current_path(current_path) # <<>>
    /\ UNCHANGED <<platform, root, current_path, total_space, used_space, state_file,
                   utils_call>>

GetFullPath(path) ==
    /\ get_full_path(current_path, path) # <<>>
    /\ UNCHANGED <<platform, root, current_path, total_space, used_space, state_file,
                   utils_call>>

GenerateTree(path, show_files) ==
    /\ generate_tree(root, current_path, path, show_files, <<>>).kind
           \in {"lines", "TypeError"}
    /\ UNCHANGED <<platform, root, current_path, total_space, used_space, state_file,
                   utils_call>>

SaveState ==
    /\ state_file' = save_state(root, current_path, total_space, used_space)
    /\ UNCHANGED <<platform, root, current_path, total_space, used_space, utils_call>>

LoadState(file) ==
    LET r == load_state(file, root, current_path, total_space, used_space) IN
    /\ root' = r.root
    /\ current_path' = r.cp
    /\ total_space' = r.total
    /\ used_space' = r.used
    /\ UNCHANGED <<platform, state_file, utils_call>>

ParsePath(path) ==
    /\ utils_call' = [fn |-> "parse_path", arg |-> path, ret |-> parse_path(path)]
    /\ UNCHANGED <<platform, root, current_path, total_space, used_space, state_file>>

IsValidFilename(filename) ==
    /\ utils_call' = [fn |-> "is_valid_filename", arg |-> filename,
                      ret |-> is_valid_filename(filename)]
    /\ UNCHANGED <<platform, root, current_path, total_space, used_space, state_file>>

Next ==
    \/ \E path \in CdPaths : ChangeDirectory(path)
    \/ \E path \in MkdirPaths : CreateDirectory(path)
    \/ \E path \in RmdirPaths : RemoveDirectory(path)
    \/ \E call \in WriteCalls : WriteFile(call[1], call[2])
    \/ \E source \in CopySources, destination \in CopyDestinations :
          CopyFile(source, destination)
    \/ \E path \in DeletePaths : DeleteFile(path)
    \/ \E oldpath \in RenamePaths, newname \in NewNames : RenameFile(oldpath, newname)
    \/ GetFreeSpace
    \/ \E path \in ReadPaths : ReadFile(path)
    \/ \E path \in ListPaths : ListDirectory(path)
    \/ \E path \in TreePaths, show_files \in BOOLEAN : GenerateTree(path, show_files)
    \/ \E path \in QueryPaths : ResolvePath(path)
    \/ GetCurrentPath
    \/ \E path \in QueryPaths : GetFullPath(path)

Spec == Init /\ [][Next]_vars

\* the calls that move the space accounting, with contents up to the
\* capacity of the disk
NextSpace ==
    \/ \E path \in SpaceWritePaths, content \in SpaceContents : WriteFile(path, content)
    \/ \E source \in CopySources, destination \in CopyDestinations :
          CopyFile(source, destination)
    \/ \E path \in DeletePaths : DeleteFile(path)
    \/ \E path \in SpaceCdPaths : ChangeDirectory(path)
    \/ GetFreeSpace

SpecSpace == Init /\ [][NextSpace]_vars

\* the calls around save_state and load_state
NextPersist ==
    \/ SaveState
    \/ LoadState(state_file)
    \/ \E i \in 1..Len(SnapshotFiles) : LoadState(SnapshotFiles[i])
    \/ \E path \in PersistCdPaths : ChangeDirectory(path)
    \/ WriteFile(NAME_F, SHORT)
    \/ GetFreeSpace

SpecPersist == Init /\ [][NextPersist]_vars

\* the calls of the functions of utils.py
NextUtils ==
    \/ \E path \in ParseInputs : ParsePath(path)
    \/ \E filename \in NameInputs : IsValidFilename(filename)

SpecUtils == Init /\ [][NextUtils]_vars

---------------------------------------------------------------------------
(* Vocabulary of the properties *)

RECURSIVE Locs(_)
\* the references to every entry at or below a node
Locs(node) ==
    IF node.type = "file" THEN {<<>>}
    ELSE {<<>>} \cup UNION { { <<node.content[i].key>> \o l :
                                 l \in Locs(node.content[i].node) } :
                             i \in 1..Len(node.content) }

FileLocs(rt) == { l \in Locs(rt) : NodeAt(rt, l).type = "file" }
DirLocs(rt) == { l \in Locs(rt) : NodeAt(rt, l).type = "dir" }

RECURSIVE SumSizes(_, _)
\* the sum of the size fields of the files at the references in S
SumSizes(rt, S) ==
    IF S = {} THEN 0
    ELSE LET l == CHOOSE x \in S : TRUE
         IN  NodeAt(rt, l).size + SumSizes(rt, S \ {l})

UsedBytes(rt) == SumSizes(rt, FileLocs(rt))

\* path resolves, in the current state, to a node of the given type
ResolvesTo(path, type) ==
    LET r == resolve_path(root, current_path, path)
    IN  r.kind = "node" /\ NodeAt(root, r.loc).type = type

ResolvesToNothing(path) == resolve_path(root, current_path, path).kind = "none"

---------------------------------------------------------------------------
(* C1: after any sequence of public operations the current-directory       *)
(* sequence resolves from the root to an existing entry of type Directory. *)
C1_CurrentIsDirectory ==
    LET cur == get_current_node(root, current_path)
    IN  cur.kind = "node" /\ NodeAt(root, cur.loc).type = "dir"

(* C2: in every reachable state, the initial one included, every File      *)
(* entry satisfies size == len(content).                                   *)
C2_SizeIsLength ==
    \A l \in FileLocs(root) :
        NodeAt(root, l).size = len_content(NodeAt(root, l).content)

\* the step is a successful rename_file
IsRename ==
    \E oldpath \in RenamePaths, newname \in NewNames :
        LET r == rename_file(root, current_path, oldpath, newname)
        IN  r.ret = "True" /\ root' = r.root

\* the step is a successful remove_directory of the entry at loc
IsRemoveOf(loc) ==
    \E path \in RmdirPaths :
        LET r == remove_directory(root, current_path, path)
        IN  /\ r.ret = "True"
            /\ root' = r.root
            /\ Locs(root') = Locs(root) \ {loc}

(* C3: a Directory entry leaves the tree only through a successful         *)
(* remove_directory on it, and only when it has no children: a step after  *)
(* which a directory is no longer where it was is a rename (which keeps    *)
(* the entry under its new key) or the removal of that directory, empty.   *)
C3_DirectoriesLeaveOnlyEmpty ==
    [][\A loc \in DirLocs(root) :
          loc \notin DirLocs(root') =>
             \/ IsRename
             \/ NodeAt(root, loc).content = <<>> /\ IsRemoveOf(loc)]_vars

\* the entry list_directory reports for the file a path names, in the tree rt
ListedSizes(rt, path) ==
    LET sp == os_path_split(path)
        listing == list_directory(rt, current_path, DirOrDot(sp[1]))
    IN  { listing.files[i].size :
            i \in { j \in 1..Len(listing.files) : listing.files[j].name = sp[2] } }

(* C4: for every path p and content c, if write(p, c) succeeds then an     *)
(* immediately following read(p) returns exactly c and the size listed for *)
(* the file in its parent equals len(c).                                   *)
C4_WriteThenRead ==
    \A call \in WriteCalls :
        LET w == write_file(root, current_path, total_space, used_space,
                            call[1], call[2])
        IN  w.ret = "True" =>
              /\ read_file(w.root, current_path, call[1])
                    = [kind |-> "content", content |-> call[2]]
              /\ ListedSizes(w.root, call[1]) = {len_content(call[2])}

(* C5: whenever change_directory(path) returns true, the new               *)
(* current-directory sequence denotes exactly the node that resolve(path)  *)
(* returned just before the call.                                          *)
C5_ChangeFollowsResolve ==
    \A path \in CdPaths :
        LET c == change_directory(root, current_path, path)
            r == resolve_path(root, current_path, path)
            now == get_current_node(c.root, c.cp)
        IN  c.ret = "True" => now.kind = "node" /\ now.loc = r.loc

(* C6: change_directory(path) returns false and leaves the                 *)
(* current-directory sequence and the tree unchanged whenever path         *)
(* resolves to nothing or to a File.                                       *)
C6_FailedChangeKeepsState ==
    \A path \in CdPaths :
        (ResolvesToNothing(path) \/ ResolvesTo(path, "file")) =>
            LET c == change_directory(root, current_path, path)
            IN  c.ret = "False" /\ c.cp = current_path /\ c.root = root

\* a state in which one path of the calls names a File and another nothing,
\* away from the root
C6_Witness ==
    /\ current_path # <<DRIVE>>
    /\ \E path \in CdPaths :
          ResolvesTo(path, "file")
          /\ change_directory(root, current_path, path).ret = "False"
    /\ \E path \in CdPaths :
          ResolvesToNothing(path)
          /\ change_directory(root, current_path, path).ret = "False"

\* change_directory(sub) and then change_directory("..") leave the
\* current-directory sequence as it was
RoundTrip(sub) ==
    LET c1 == change_directory(root, current_path, sub)
        c2 == change_directory(c1.root, c1.cp, DOTDOT)
    IN  c1.ret = "True" /\ c2.ret = "True" /\ c2.cp = current_path

(* C7, as claimed: for any sub that denotes an existing directory,         *)
(* change_directory(sub) followed by change_directory("..") leaves the     *)
(* current-directory sequence exactly as it was before the first call.     *)
(* (Checked on the paths other than the one with the lower-case drive,     *)
(* whose handling C5 settles.)                                             *)
C7_RoundTripAnyDirectory ==
    \A sub \in CdPaths \ {P_c_DOS} : ResolvesTo(sub, "dir") => RoundTrip(sub)

\* the names of the child directories of the current directory that the
\* name validator accepts
ChildDirectoryNames ==
    LET cur == get_current_node(root, current_path) IN
    IF cur.kind = "node" /\ NodeAt(root, cur.loc).type = "dir"
    THEN LET d == NodeAt(root, cur.loc).content
         IN  { d[i].key : i \in { j \in 1..Len(d) :
                                    /\ d[j].node.type = "dir"
                                    /\ is_valid_filename(d[j].key) } }
    ELSE {}

(* C7, amended: for any sub that is the name of a child directory of the   *)
(* current directory, change_directory(sub) followed by                    *)
(* change_directory("..") both succeed and leave the current-directory     *)
(* sequence exactly as it was before the first call.                       *)
C7_RoundTripChild ==
    \A sub \in ChildDirectoryNames : RoundTrip(sub)

\* below the root, with a child directory to enter
C7_Witness ==
    /\ current_path # <<DRIVE>>
    /\ ChildDirectoryNames # {}
    /\ \E sub \in ChildDirectoryNames :
          change_directory(root, current_path, sub).cp = Append(current_path, sub)

(* C8: in every reachable state free_space() returns total_space minus the *)
(* sum of File.size over all files reachable from the root at the moment   *)
(* of the call, whatever mutations preceded it.                            *)
C8_FreeSpaceIsFresh ==
    get_free_space(root, total_space) = total_space - UsedBytes(root)

\* the used_space field is out of date and files have been written or deleted
C8_Witness ==
    /\ used_space # UsedBytes(root)
    /\ UsedBytes(root) # README_SIZE
    /\ get_free_space(root, total_space) # total_space - used_space

(* C9: after any sequence of operations the sum of all File.size in the    *)
(* tree is at most total_space.                                            *)
C9_UsedWithinCapacity == UsedBytes(root) <= total_space

\* the disk is full, and a file other than the seed holds the space
C9_Witness ==
    /\ UsedBytes(root) = total_space
    /\ \E l \in FileLocs(root) : NodeAt(root, l).size > README_SIZE

(* C10: with total_space = T and used space U, writing a new file whose    *)
(* content length is exactly T - U succeeds; writing a new file of length  *)
(* T - U + 1 fails with the out-of-space failure, distinct from the other  *)
(* write failures, and leaves the tree unmodified.                         *)
C10_CapacityBoundary ==
    \A path \in SpaceWritePaths :
        (/\ ResolvesToNothing(path)
         /\ write_file(root, current_path, total_space, used_space,
                       path, EMPTY).ret = "True") =>
            LET fits == write_file(root, current_path, total_space, used_space,
                                   path, Filling(root, total_space))
                over == write_file(root, current_path, total_space, used_space,
                                   path, TooLong(root, total_space))
            IN  /\ fits.ret = "True"
                /\ over.ret = "IOError"
                /\ over.root = root

\* the paths by which the calls name a file to overwrite
OverwritePaths == { NAME_F, README_TXT, P_README, P_DOS_B_README }

\* contents for a file of size s on a disk with free bytes free: empty,
\* short, the longest that fits once s is credited, and one character more
OverwriteContents(free, s) ==
    { EMPTY, SHORT, Repeat("x", free + s), Repeat("x", free + s + 1) }

(* C11: overwriting an existing File of size s with content of length n    *)
(* succeeds exactly when n <= free_space() + s, and afterwards             *)
(* free_space() equals the previous free space plus s minus n.             *)
C11_OverwriteAccounting ==
    \A path \in OverwritePaths :
        ResolvesTo(path, "file") =>
            LET free == get_free_space(root, total_space)
                s == NodeAt(root, resolve_path(root, current_path, path).loc).size
            IN  \A content \in OverwriteContents(free, s) :
                    LET n == len_content(content)
                        w == write_file(root, current_path, total_space, used_space,
                                        path, content)
                    IN  /\ (w.ret = "True") <=> (n <= free + s)
                        /\ w.ret = "True" =>
                              get_free_space(w.root, total_space) = free + s - n

\* the spellings of the directory d, the separators and the names n of the
\* calls create_directory(d + separator + n)
CreateDirs == { DOT, DOTDOT, DRIVE, DOS }
Separators == { BSL, FSL }
CreateNames == { NAME_A, NAME_N }

\* the path that names n in the directory d; in the current directory the
\* name alone
InDir(d, sep, n) == IF d = DOT THEN n ELSE d \o <<sep>> \o n

\* the positions at which a listing holds an entry named n
ListedAt(files, n) == { i \in 1..Len(files) : files[i].name = n }

(* C12: for every valid name n and existing directory d not already        *)
(* containing n, create_directory of n in d succeeds and list(d) then      *)
(* contains n exactly once, as a directory; a second create_directory for  *)
(* the same n in d fails and leaves the tree unchanged.                    *)
C12_CreateThenList ==
    \A d \in CreateDirs, sep \in Separators, n \in CreateNames :
        (/\ ResolvesTo(d, "dir")
         /\ is_valid_filename(n)
         /\ ~HasKey(NodeAt(root, resolve_path(root, current_path, d).loc).content, n))
        =>
            LET path == InDir(d, sep, n)
                c1 == create_directory(root, current_path, path)
                l == list_directory(c1.root, current_path, d)
                c2 == create_directory(c1.root, current_path, path)
            IN  /\ c1.ret = "True"
                /\ l.kind = "list"
                /\ Cardinality(ListedAt(l.files, n)) = 1
                /\ \A i \in ListedAt(l.files, n) : l.files[i].type = "dir"
                /\ c2.ret = "False"
                /\ c2.root = c1.root

\* the paths by which the calls name a directory to remove
RemoveTargets ==
    { DOS, NAME_A, P_C_DOS, P_C_B_DOS, P_UP_DOS, P_UP_A, DOT, DOTDOT, DRIVE,
      <<"C", ":", "A">>, <<"C", ":", "D", "O", "S">> }

\* the path of the parent as remove_directory takes it from the path
ParentPath(path) == DirOrDot(os_path_split(path)[1])

\* the path names, as a child of the directory its parent path resolves to,
\* a directory that holds at least one entry
NonEmptyDirectory(path) ==
    /\ ResolvesTo(ParentPath(path), "dir")
    /\ LET d == NodeAt(root, resolve_path(root, current_path, ParentPath(path)).loc)
           name == os_path_split(path)[2]
       IN  /\ HasKey(d.content, name)
           /\ Get(d.content, name).type = "dir"
           /\ Get(d.content, name).content # <<>>

(* C13: remove_directory on a directory that contains at least one entry   *)
(* (file or directory) fails, and the tree and the current directory are   *)
(* unchanged: a list of that directory and of its parent returns the same  *)
(* entries as before.                                                      *)
C13_RemoveNonEmptyFails ==
    \A path \in RemoveTargets :
        NonEmptyDirectory(path) =>
            LET r == remove_directory(root, current_path, path)
            IN  /\ r.ret = "False"
                /\ r.root = root
                /\ list_directory(r.root, current_path, path)
                      = list_directory(root, current_path, path)
                /\ list_directory(r.root, current_path, ParentPath(path))
                      = list_directory(root, current_path, ParentPath(path))

\* a directory that holds a directory is asked to be removed, away from the
\* root
C13_Witness ==
    /\ current_path # <<DRIVE>>
    /\ \E path \in RemoveTargets :
          /\ NonEmptyDirectory(path)
          /\ remove_directory(root, current_path, path).ret = "False"
          /\ LET d == NodeAt(root,
                           resolve_path(root, current_path, ParentPath(path)).loc)
                 t == Get(d.content, os_path_split(path)[2]).content
             IN  \E i \in 1..Len(t) : t[i].node.type = "dir"

\* the outcomes that are exceptions other than the out-of-space IOError
Raised == { "ValueError", "TypeError" }

\* the calls of write_file whose failures are NotFound, WrongType and
\* InvalidName
FailingWriteCalls == WriteCalls \cup { <<DOTDOT, SHORT>>, <<P_README \o <<FSL>> \o NAME_F, SHORT>> }

(* C14: every public operation, called in any reachable state with any     *)
(* path, reports NotFound, WrongType, NameConflict, InvalidName and         *)
(* NotEmpty as an ordinary negative return value and never as a raised     *)
(* fault.                                                                  *)
C14_FailuresAreReturned ==
    /\ \A path \in CdPaths :
          change_directory(root, current_path, path).ret \notin Raised
    /\ \A path \in MkdirPaths :
          create_directory(root, current_path, path).ret \notin Raised
    /\ \A path \in RmdirPaths :
          remove_directory(root, current_path, path).ret \notin Raised
    /\ \A path \in ListPaths :
          list_directory(root, current_path, path).kind \notin Raised
    /\ \A path \in ReadPaths :
          read_file(root, current_path, path).kind \notin Raised
    /\ \A call \in FailingWriteCalls :
          write_file(root, current_path, total_space, used_space,
                     call[1], call[2]).ret \notin Raised
    /\ \A path \in DeletePaths :
          delete_file(root, current_path, path).ret \notin Raised
    /\ \A source \in CopySources, destination \in CopyDestinations :
          copy_file(root, current_path, total_space, used_space,
                    source, destination).ret \notin Raised
    /\ \A oldpath \in RenamePaths, newname \in NewNames :
          rename_file(root, current_path, oldpath, newname).ret \notin Raised

\* a load_state of the file that returns False leaves the four fields alone
FailedLoadKeepsState(file) ==
    LET l == load_state(file, root, current_path, total_space, used_space)
    IN  l.ret = "False" =>
            /\ l.root = root
            /\ l.cp = current_path
            /\ l.total = total_space
            /\ l.used = used_space

(* C15: when load_state fails for any reason (unreadable file, missing     *)
(* field, malformed record), the root, the current-directory sequence,     *)
(* total_space and used_space are all exactly what they were before the    *)
(* call.                                                                   *)
C15_FailedLoadKeepsState ==
    /\ FailedLoadKeepsState(state_file)
    /\ \A i \in 1..Len(SnapshotFiles) : FailedLoadKeepsState(SnapshotFiles[i])

\* the keys of a snapshot
SnapshotKeys == { "filesystem", "current_path", "total_space", "used_space" }

\* the dictionary loaded from a file agrees with the data model: the root
\* is a Directory, the current-directory sequence denotes a directory of
\* the tree, and every File has the size of its content
AgreesWithDataModel(state) ==
    /\ state.filesystem.type = "dir"
    /\ LET cur == get_current_node(state.filesystem, state.current_path)
       IN  cur.kind = "node" /\ NodeAt(state.filesystem, cur.loc).type = "dir"
    /\ \A l \in FileLocs(state.filesystem) :
          NodeAt(state.filesystem, l).size
              = len_content(NodeAt(state.filesystem, l).content)

\* the file is not a snapshot of a state of the data model
Mismatch(file) ==
    \/ file.kind # "json"
    \/ file.value.j # "object"
    \/ ~(SnapshotKeys \subseteq DOMAIN json_load(file.value))
    \/ ~AgreesWithDataModel(json_load(file.value))

\* load_state of the file returns False and replaces nothing
LoadRejects(file) ==
    LET l == load_state(file, root, current_path, total_space, used_space)
    IN  l.ret = "False" /\ l.root = root /\ l.cp = current_path

(* C16: load_state fails for every snapshot whose content has a structural *)
(* or type mismatch with the data model (a root that is not a Directory, a *)
(* current-directory sequence that denotes no directory of the loaded      *)
(* tree, a File whose size differs from its content length); such a        *)
(* snapshot never becomes the filesystem state.                            *)
C16_MismatchIsRejected ==
    /\ Mismatch(state_file) => LoadRejects(state_file)
    /\ \A i \in 1..Len(SnapshotFiles) :
          Mismatch(SnapshotFiles[i]) => LoadRejects(SnapshotFiles[i])

\* the paths the calls of list_directory are checked on
ListTargets ==
    { DOT, DRIVE, DRIVE \o <<BSL>>, DRIVE \o <<FSL>>, DOTDOT, DOS, P_C_DOS,
      NAME_A, NAME_F, P_README }

\* the listing has the entry "." first, ".." next iff with_parent, and then
\* one entry per child of the node, in the order of insertion
ListsDirectory(files, node, with_parent) ==
    LET k == IF with_parent THEN 2 ELSE 1 IN
    /\ Len(files) = k + Len(node.content)
    /\ files[1].name = DOT
    /\ with_parent => files[2].name = DOTDOT
    /\ \A i \in 1..Len(node.content) :
          /\ files[k + i].name = node.content[i].key
          /\ files[k + i].type = node.content[i].node.type

(* C17: list(path) of a Directory returns the "." pseudo-entry first, then *)
(* a ".." pseudo-entry if and only if the target directory is not the root *)
(* (however the path to the root is spelled, "." at the root included),    *)
(* then one entry per child in insertion order; list of an absent path or  *)
(* of a File returns the empty sequence.                                   *)
C17_ListShape ==
    \A path \in ListTargets :
        LET r == resolve_path(root, current_path, path)
            l == list_directory(root, current_path, path)
        IN  /\ ResolvesTo(path, "dir") =>
                  /\ l.kind = "list"
                  /\ ListsDirectory(l.files, NodeAt(root, r.loc), r.loc # <<>>)
            /\ (ResolvesToNothing(path) \/ ResolvesTo(path, "file")) =>
                  l = [kind |-> "list", files |-> <<>>]

\* the names of the scenario
NEWDIR == <<"N", "E", "W", "D", "I", "R">>
A_TXT == <<"A", ".", "T", "X", "T">>
P_NEWDIR_A_TXT == NEWDIR \o <<BSL>> \o A_TXT              \* NEWDIR\A.TXT

\* the filesystem is as constructed
Fresh == root = SeedRoot /\ current_path = <<DRIVE>> /\ total_space = 10 * 1024 * 1024

(* C18: in the freshly constructed filesystem free_space() equals          *)
(* total_space - 177; after create_directory("NEWDIR") followed by         *)
(* write("NEWDIR\A.TXT", "hi") from the root, both calls succeed, the file *)
(* is a child of NEWDIR, and free_space() equals total_space - 179.        *)
C18_SeedScenario ==
    Fresh =>
        LET c == create_directory(root, current_path, NEWDIR)
            w == write_file(c.root, current_path, total_space, used_space,
                            P_NEWDIR_A_TXT, SHORT)
        IN  /\ get_free_space(root, total_space) = total_space - 177
            /\ c.ret = "True"
            /\ w.ret = "True"
            /\ HasKey(w.root.content, NEWDIR)
            /\ HasKey(Get(w.root.content, NEWDIR).content, A_TXT)
            /\ Get(Get(w.root.content, NEWDIR).content, A_TXT).type = "file"
            /\ get_free_space(w.root, total_space) = total_space - 179

(* C19: in every reachable state, every non-root entry in the tree has a   *)
(* name accepted by the name validator: no operation ever inserts an entry *)
(* named ".", "..", empty, or containing a forbidden character.            *)
C19_NamesAreValid ==
    \A l \in Locs(root) \ {<<>>} :
        /\ is_valid_filename(l[Len(l)])
        /\ is_valid_filename(NodeAt(root, l).name)


(***************************************************************************)
(* C20: rename(path, new_name) fails leaving the tree unchanged when       *)
(* new_name is invalid, the old entry is absent, or new_name is already a  *)
(* child of the same parent; otherwise afterwards the parent has a child   *)
(* keyed new_name whose name field is new_name, has no child under the old *)
(* name, and the entry's type, content/subtree and the filesystem's free   *)
(* space are unchanged; this holds identically for Files and Directories.  *)
(* The old entry is the one the path denotes, found by the resolver; the   *)
(* paths spell the entry's own name last, with either separator.           *)
(***************************************************************************)
RenameTargets == { NAME_F, NAME_A, DOS, P_README, P_DOS_B_README, P_C_B_DOS,
                   P_UP_DOS }
RenameNames == { NAME_N, NAME_A, DOTDOT }

RenameFails(r) == r.ret # "True" /\ r.root = root

Renamed(r, loc, newname) ==
    LET ploc == SubSeq(loc, 1, Len(loc) - 1)
        oldname == loc[Len(loc)]
        old == NodeAt(root, loc)
        pn == NodeAt(r.root, ploc)
    IN  /\ r.ret = "True"
        /\ HasKey(pn.content, newname)
        /\ ~HasKey(pn.content, oldname)
        /\ Get(pn.content, newname) = [old EXCEPT !.name = newname]
        /\ get_free_space(r.root, total_space) = get_free_space(root, total_space)

RenameContract(oldpath, newname) ==
    LET e == resolve_path(root, current_path, oldpath)
        r == rename_file(root, current_path, oldpath, newname)
    IN  IF e.kind = "fault" THEN TRUE
        ELSE IF \/ ~is_valid_filename(newname)
                \/ e.kind = "none"
                \/ e.loc = <<>>
                \/ HasKey(NodeAt(root, SubSeq(e.loc, 1, Len(e.loc) - 1)).content,
                          newname)
             THEN RenameFails(r)
        ELSE Renamed(r, e.loc, newname)

C20_RenameContract ==
    \A oldpath \in RenameTargets : \A newname \in RenameNames :
        RenameContract(oldpath, newname)


(***************************************************************************)
(* C21: delete(path) fails leaving the tree unchanged when the target is   *)
(* absent or is a Directory; when the target is a File it is removed from  *)
(* its parent only, every other entry is unchanged, and free_space() grows *)
(* by exactly the deleted file's size.  The target is the entry the path   *)
(* denotes, found by the resolver.                                         *)
(***************************************************************************)
DeleteTargets == { NAME_F, NAME_A, DOS, P_README, P_DOS_B_README, P_A_A_f }

DeleteFails(r) == r.ret # "True" /\ r.root = root

Deleted(r, loc) ==
    LET ploc == SubSeq(loc, 1, Len(loc) - 1)
        pn == NodeAt(root, ploc)
    IN  /\ r.ret = "True"
        /\ r.root = SetAt(root, ploc,
                          [pn EXCEPT !.content = DictDel(pn.content, loc[Len(loc)])])
        /\ Locs(r.root) = Locs(root) \ {loc}
        /\ \A l \in Locs(r.root) \ {<<>>} :
              /\ NodeAt(r.root, l).type = NodeAt(root, l).type
              /\ NodeAt(r.root, l).name = NodeAt(root, l).name
              /\ NodeAt(root, l).type = "file" => NodeAt(r.root, l) = NodeAt(root, l)
        /\ get_free_space(r.root, total_space)
              = get_free_space(root, total_space) + NodeAt(root, loc).size

DeleteContract(path) ==
    LET e == resolve_path(root, current_path, path)
        r == delete_file(root, current_path, path)
    IN  IF e.kind = "fault" THEN TRUE
        ELSE IF e.kind = "none" \/ NodeAt(root, e.loc).type = "dir"
             THEN DeleteFails(r)
        ELSE Deleted(r, e.loc)

C21_DeleteContract == \A path \in DeleteTargets : DeleteContract(path)


(***************************************************************************)
(* C22: create_directory(path) fails and leaves the tree unchanged when    *)
(* the final name is invalid, the parent path is absent, the parent is a   *)
(* File, or the name is already present; in particular it never creates    *)
(* missing intermediate directories.  Parent path and final name are the   *)
(* two parts the operation splits the path into.                           *)
(***************************************************************************)
CreateTargets ==
    { <<>>, DOTDOT, NAME_A, DOS, NAME_F, P_README, P_README_N,
      P_N_A, P_N_N_A, P_C_B_DOS,
      <<"N", "\\", "A">> }                          \* N\A

FinalName(path) == os_path_split(path)[2]

ParentOf(path) == resolve_path(root, current_path, ParentPath(path))

ParentAbsent(path) == ParentOf(path).kind \in {"none", "fault"}

ParentIsFile(path) ==
    ParentOf(path).kind = "node" /\ NodeAt(root, ParentOf(path).loc).type = "file"

NamePresent(path) ==
    /\ ParentOf(path).kind = "node"
    /\ NodeAt(root, ParentOf(path).loc).type = "dir"
    /\ HasKey(NodeAt(root, ParentOf(path).loc).content, FinalName(path))

CreateRefused(path) ==
    LET r == create_directory(root, current_path, path)
    IN  r.ret # "True" /\ r.root = root

C22_CreateFailsCleanly ==
    \A path \in CreateTargets :
        ( \/ ~is_valid_filename(FinalName(path))
          \/ ParentAbsent(path)
          \/ ParentIsFile(path)
          \/ NamePresent(path) ) => CreateRefused(path)

C22_Witness ==
    /\ is_valid_filename(FinalName(P_N_N_A)) /\ ParentAbsent(P_N_N_A)
    /\ CreateRefused(P_N_N_A)
    /\ is_valid_filename(FinalName(P_README_N)) /\ ParentIsFile(P_README_N)
    /\ CreateRefused(P_README_N)
    /\ NamePresent(NAME_A) /\ CreateRefused(NAME_A)
    /\ ~is_valid_filename(FinalName(DOTDOT)) /\ CreateRefused(DOTDOT)


(***************************************************************************)
(* C23: copy(source, destination) fails with the tree unchanged when       *)
(* source is absent or is not a File; otherwise its outcome is that of     *)
(* write(destination, content of source), failing when that write fails,   *)
(* and on success read(destination) equals read(source) while the source   *)
(* entry is unchanged.                                                     *)
(***************************************************************************)
CopyFrom == { P_README, NAME_F, DOS, NAME_N }
CopyTo == { NAME_F, NAME_A, DOS, DOTDOT, P_A_BF_f, P_README_N, P_C_f }

\* the entry the path denotes is, in the tree rt, what it is in the state
SourceUnchanged(rt, source) ==
    LET before == resolve_path(root, current_path, source)
        after == resolve_path(rt, current_path, source)
    IN  /\ after.kind = "node"
        /\ after.loc = before.loc
        /\ NodeAt(rt, after.loc) = NodeAt(root, before.loc)

CopyContract(source, destination) ==
    LET src == read_file(root, current_path, source)
        c == copy_file(root, current_path, total_space, used_space,
                       source, destination)
        w == write_file(root, current_path, total_space, used_space,
                        destination, src.content)
    IN  IF src.kind = "TypeError" THEN TRUE
        ELSE IF src.kind = "None" THEN c.ret # "True" /\ c.root = root
        ELSE /\ c.root = w.root
             /\ (c.ret = "True") <=> (w.ret = "True")
             /\ c.ret = "True" =>
                   /\ read_file(c.root, current_path, destination) = src
                   /\ read_file(c.root, current_path, source) = src
                   /\ SourceUnchanged(c.root, source)

C23_CopyContract ==
    \A source \in CopyFrom : \A destination \in CopyTo :
        CopyContract(source, destination)


(***************************************************************************)
(* C24: after every completed operation the used_space field, the value    *)
(* save_state writes into the snapshot, equals the sum of the sizes of all *)
(* files reachable from the root at that moment.                           *)
(***************************************************************************)
C24_UsedSpaceIsSum == used_space = UsedBytes(root)


(***************************************************************************)
(* C25: path resolution never inserts the entry named by the final segment *)
(* of the path it is given: with create_dirs set it inserts empty          *)
(* directories only for missing non-final segments, every entry that       *)
(* existed staying as it was, and with create_dirs unset it changes        *)
(* nothing in the tree.  Resolution has no access to current_path other    *)
(* than to read it.                                                        *)
(***************************************************************************)
ResolvePaths ==
    { <<>>, DOT, DOTDOT, DRIVE, DOS, NAME_N, P_README, P_README_N,
      P_N_A, P_N_N_A, P_A_BF_f, P_DOS_UP_A_f,
      <<"N", "\\", "A">>,                           \* N\A
      <<"N", "/">>,                                 \* N/
      <<"C", ":", "\\", "N", "\\", "A">>,            \* C:\N\A
      <<".", ".", "\\", "N", "\\", "A">> }           \* ..\N\A

\* the entries of the tree rt that the tree of the state does not have
Inserted(rt) == Locs(rt) \ Locs(root)

\* every entry of the state is in rt, a file with all its fields
Kept(rt) ==
    \A l \in Locs(root) :
        /\ l \in Locs(rt)
        /\ NodeAt(rt, l).type = NodeAt(root, l).type
        /\ NodeAt(rt, l).name = NodeAt(root, l).name
        /\ NodeAt(root, l).type = "file" => NodeAt(rt, l) = NodeAt(root, l)

\* the segments of the path before its final one
NonFinalSegments(path) ==
    LET parts == parse_path(path)
    IN  { parts[i] : i \in 1..(Len(parts) - 1) }

EndsInName(path) ==
    parse_path(path) # <<>> /\ parse_path(path)[Len(parse_path(path))] # <<>>

ResolutionInsertsOnlyIntermediates(path) ==
    LET r == get_node_at_path(root, current_path, path, TRUE)
    IN  /\ Kept(r.root)
        /\ \A l \in Inserted(r.root) :
              /\ NodeAt(r.root, l).type = "dir"
              /\ NodeAt(r.root, l).name = l[Len(l)]
              /\ l[Len(l)] \in NonFinalSegments(path)
              /\ \A i \in 1..Len(NodeAt(r.root, l).content) :
                    NodeAt(r.root, l).content[i].node.type = "dir"
        /\ Cardinality(Inserted(r.root)) < Len(parse_path(path))
              \/ Inserted(r.root) = {}
        /\ (EndsInName(path) /\ r.kind = "node") => r.loc \in Locs(root)

C25_ResolutionNeverCreatesFinal ==
    \A path \in ResolvePaths :
        /\ get_node_at_path(root, current_path, path, FALSE).root = root
        /\ ResolutionInsertsOnlyIntermediates(path)

C25_Witness ==
    /\ current_path # <<DRIVE>>
    /\ Cardinality(Inserted(get_node_at_path(root, current_path, P_N_N_A, TRUE).root)) = 2
    /\ get_node_at_path(root, current_path, P_N_N_A, TRUE).kind = "none"
    /\ get_node_at_path(root, current_path, DOS, TRUE).kind = "none"


(***************************************************************************)
(* C26: a write(path, content) that fails for any reason (invalid name,    *)
(* parent path that does not resolve to a Directory, insufficient space)   *)
(* leaves the tree exactly as it was before the call: no directory is      *)
(* created as a side effect of a failed write.                             *)
(***************************************************************************)
FailedWriteTargets == { DOTDOT, NAME_F, DOS, P_README_N, P_N_A, P_A_A_f }

FailedWriteKeepsTree(path, content) ==
    LET w == write_file(root, current_path, total_space, used_space, path, content)
    IN  w.ret # "True" => w.root = root

C26_FailedWriteKeepsTree ==
    \A path \in FailedWriteTargets :
        \A content \in { SHORT, TooLong(root, total_space) } :
            FailedWriteKeepsTree(path, content)


(***************************************************************************)
(* C27: for a relative path, resolution treats a leading ".." (the anchor  *)
(* becomes the parent of the current directory, or the root itself when    *)
(* the current directory is the root) and a "." that is leading or comes   *)
(* directly after the leading ".." as special; a "." or ".." at any later  *)
(* position is looked up as an ordinary child name, so such a path         *)
(* resolves to no entry unless a child with that literal name exists.      *)
(* As first stated, only a leading ".." and a leading "." are special      *)
(* (C27_OnlyFirstTokenSpecial).  A resolution that ends in None and one    *)
(* that ends in the TypeError of a missing anchor both resolve to no       *)
(* entry.                                                                  *)
(***************************************************************************)
RelativePaths ==
    { DOT, DOTDOT, DOS, P_README, P_UP_DOS, P_UP_DOT, P_DOT_UP, P_UP_UP,
      <<".", "/", ".">>,                            \* ./.
      DOS \o <<"/", ".", ".">>,                     \* DOS/..
      DOS \o <<"/", ".">>,                          \* DOS/.
      <<".", "/">> \o DOS,                          \* ./DOS
      <<".", ".", "/", ".", "/">> \o DOS,           \* .././DOS
      P_UP_DOS \o <<"/", ".", ".">> }               \* ../DOS/..

NoEntry == [kind |-> "none", loc |-> <<>>]

RECURSIVE LookUp(_, _)
\* the entry reached from the entry at loc by taking each name as the key of
\* a child, whatever the name
LookUp(loc, names) ==
    IF names = <<>> THEN [kind |-> "node", loc |-> loc]
    ELSE IF names[1] = <<>> THEN LookUp(loc, Tail(names))
    ELSE IF NodeAt(root, loc).type # "dir" \/ ~HasKey(NodeAt(root, loc).content, names[1])
         THEN NoEntry
    ELSE LookUp(Append(loc, names[1]), Tail(names))

LookUpFrom(anchor, names) ==
    IF anchor.kind = "node" THEN LookUp(anchor.loc, names) ELSE NoEntry

\* the current directory and its parent, named absolutely by current_path
CurrentAnchor == resolve_path(root, current_path, Join(current_path, BSL))

ParentAnchor ==
    IF Len(current_path) > 1
    THEN resolve_path(root, current_path,
                      Join(SubSeq(current_path, 1, Len(current_path) - 1), BSL))
    ELSE Found(root, <<>>)

\* the entry the path resolves to, if any
Resolved(path) ==
    LET r == resolve_path(root, current_path, path)
    IN  IF r.kind = "node" THEN [kind |-> "node", loc |-> r.loc] ELSE NoEntry

\* what the path denotes when only its first segment can be special
FirstTokenSpecial(path) ==
    LET parts == parse_path(path)
    IN  IF parts[1] = DOTDOT THEN LookUpFrom(ParentAnchor, Tail(parts))
        ELSE IF parts[1] = DOT THEN LookUpFrom(CurrentAnchor, Tail(parts))
        ELSE LookUpFrom(CurrentAnchor, parts)

\* what the path denotes when a "." directly after the leading ".." is
\* dropped as well
LeadingDotsSpecial(path) ==
    LET parts == parse_path(path)
    IN  IF parts[1] = DOTDOT
        THEN IF Len(parts) > 1 /\ parts[2] = DOT
             THEN LookUpFrom(ParentAnchor, Tail(Tail(parts)))
             ELSE LookUpFrom(ParentAnchor, Tail(parts))
        ELSE IF parts[1] = DOT THEN LookUpFrom(CurrentAnchor, Tail(parts))
        ELSE LookUpFrom(CurrentAnchor, parts)

C27_OnlyFirstTokenSpecial ==
    \A path \in RelativePaths : Resolved(path) = FirstTokenSpecial(path)

C27_LeadingDotsSpecial ==
    \A path \in RelativePaths : Resolved(path) = LeadingDotsSpecial(path)

C27_Witness ==
    /\ current_path = <<DRIVE, DOS>>
    /\ Resolved(P_DOT_UP) = [kind |-> "node", loc |-> <<DOS, DOTDOT>>]
    /\ Resolved(P_UP_DOT) = [kind |-> "node", loc |-> <<>>]
    /\ Resolved(P_UP_UP) = NoEntry


(***************************************************************************)
(* C28: for every non-empty path whose first segment contains ":",         *)
(* segment 0 of parse(path) is exactly the upper-cased drive letter        *)
(* followed by ":" (two characters, the second being ":"), and all "/" and *)
(* "\" separators split segments identically; parse of the empty string   *)
(* is the empty sequence.                                                  *)
(***************************************************************************)
\* the characters of the path before its first separator
FirstSegment(path) ==
    IF \E i \in 1..Len(path) : path[i] \in {FSL, BSL}
    THEN SubSeq(path, 1, (CHOOSE i \in 1..Len(path) :
                             /\ path[i] \in {FSL, BSL}
                             /\ \A k \in 1..(i - 1) : path[k] \notin {FSL, BSL}) - 1)
    ELSE path

ParsedAsDrive(path, parts) ==
    /\ parts # <<>>
    /\ Len(parts[1]) = 2
    /\ parts[1][1] = UpperChar(path[1])
    /\ parts[1][2] = ":"

ParseContract(path, parts) ==
    /\ path = <<>> => parts = <<>>
    /\ (path # <<>> /\ Contains(FirstSegment(path), ":")) => ParsedAsDrive(path, parts)
    /\ parse_path(Replace(path, FSL, BSL)) = parts
    /\ parse_path(Replace(path, BSL, FSL)) = parts

C28_ParseContract ==
    utils_call.fn = "parse_path" => ParseContract(utils_call.arg, utils_call.ret)

(***************************************************************************)
(* C29: is_valid(name) is false exactly when name is empty, is "." or      *)
(* "..", contains any of the characters < > : " / \ | ? *, or is longer    *)
(* than 255 characters, and true for every other name (a 255-character     *)
(* name of allowed characters is accepted, a 256-character one rejected).  *)
(***************************************************************************)
Rejected(name) ==
    \/ Len(name) = 0
    \/ name = <<".">>
    \/ name = <<".", ".">>
    \/ \E i \in 1..Len(name) :
          name[i] \in {"<", ">", ":", "\"", "/", "\\", "|", "?", "*"}
    \/ Len(name) > 255

C29_ValidExactly ==
    utils_call.fn = "is_valid_filename" =>
        (utils_call.ret <=> ~Rejected(utils_call.arg))

C29_Witness ==
    /\ utils_call.fn = "is_valid_filename"
    /\ Len(utils_call.arg) = 255
    /\ utils_call.ret


---------------------------------------------------------------------------
(* C30.  The tree of a directory, read off the nodes themselves.           *)

\* no item of the sequence sorts before an item in front of it
InTreeOrder(items) ==
    \A i, j \in 1..Len(items) : i < j => ~KeyLess(items[j], items[i])

RECURSIVE DirsBelow(_)
RECURSIVE DirsAmong(_, _)
\* the number of directories among content[i..] and below them
DirsAmong(content, i) ==
    IF i > Len(content) THEN 0
    ELSE (IF content[i].node.type = "dir" THEN 1 + DirsBelow(content[i].node) ELSE 0)
         + DirsAmong(content, i + 1)

\* the number of directories strictly below a directory
DirsBelow(node) == DirsAmong(node.content, 1)

RECURSIVE Rendered(_, _, _)
RECURSIVE RenderedFrom(_, _, _, _)
\* the lines of the visible children items[i..] of one directory, each
\* directory followed by the lines of its own children
RenderedFrom(items, show_files, prefix, i) ==
    IF i > Len(items) THEN <<>>
    ELSE <<prefix \o <<IF i = Len(items) THEN LAST_BRANCH ELSE BRANCH>> \o items[i].key>>
         \o (IF items[i].node.type = "dir"
             THEN Rendered(items[i].node, show_files,
                           Append(prefix, IF i = Len(items) THEN INDENT ELSE BAR_INDENT))
             ELSE <<>>)
         \o RenderedFrom(items, show_files, prefix, i + 1)

Rendered(node, show_files, prefix) ==
    RenderedFrom(SortItems(TreeItemsOf(node, show_files), <<>>), show_files, prefix, 1)

\* the path names a directory
TreeTarget(path) == get_node_at_path(root, current_path, path, FALSE)

NamesDirectory(path) ==
    /\ TreeTarget(path).kind = "node"
    /\ NodeAt(root, TreeTarget(path).loc).type = "dir"

TreeContract(path, show_files) ==
    /\ InTreeOrder(SortItems(TreeItemsOf(NodeAt(root, TreeTarget(path).loc), show_files), <<>>))
    /\ generate_tree(root, current_path, path, show_files, <<>>)
         = TreeLines(Rendered(NodeAt(root, TreeTarget(path).loc), show_files, <<>>))
    /\ ~show_files =>
         Len(generate_tree(root, current_path, path, FALSE, <<>>).lines)
           = DirsBelow(NodeAt(root, TreeTarget(path).loc))

\* C30: generate_tree(path, include_files) on a directory emits, for each
\* directory of the subtree, its visible children with directories before
\* files and then by case-insensitive name, the last child of a directory
\* with the closing branch and the others with the open one, never descending
\* into a file; without include_files the output has exactly one line per
\* directory strictly below the target.
C30_TreeContract ==
    \A path \in TreePaths, show_files \in BOOLEAN :
        NamesDirectory(path) => TreeContract(path, show_files)


---------------------------------------------------------------------------
(* C31.  Saving and loading back.                                           *)

\* load_state of the file save_state leaves for the state as it is
Reloaded ==
    load_state(save_state(root, current_path, total_space, used_space),
               root, current_path, total_space, used_space)

\* C31: save_state followed by load_state of the same snapshot, with nothing
\* in between, succeeds and leaves the tree (entries, names, types, sizes,
\* contents, order of the children), the current-directory sequence and
\* total_space as they were at the save.
C31_SaveLoadRoundTrip ==
    /\ Reloaded.ret = "True"
    /\ Reloaded.root = root
    /\ Reloaded.cp = current_path
    /\ Reloaded.total = total_space

\* the snapshot of a state with a written file and a current directory below
\* the root is on file
C31_Witness ==
    /\ state_file = save_state(root, current_path, total_space, used_space)
    /\ root.type = "dir"
    /\ HasKey(root.content, NAME_F)
    /\ Len(current_path) > 1


---------------------------------------------------------------------------
(* C32.  The timestamps of the ".." entry.                                  *)

\* relative and drive-rooted paths of directories
StampPaths ==
    { DOT, DOTDOT, DOS, NAME_A, P_C_DOS, P_C_B_DOS, P_UP_DOS, P_UP_A,
      DOS \o <<"/">> \o NAME_A, DRIVE \o <<"/">> \o DOS \o <<"/">> \o NAME_A }

\* list_directory(path) returns the entries of a directory other than the root
ListsNonRoot(path) ==
    /\ list_directory(root, current_path, path).kind = "list"
    /\ list_directory(root, current_path, path).files # <<>>
    /\ get_node_at_path(root, current_path, path, FALSE).loc # <<>>

\* the place of the directory that holds the node at a place
ParentLoc(loc) == SubSeq(loc, 1, Len(loc) - 1)

DotDotOfParent(path) ==
    /\ \E i \in DOMAIN list_directory(root, current_path, path).files :
          list_directory(root, current_path, path).files[i].name = DOTDOT
    /\ dotdot_stamps(root, current_path, path)
         = ParentLoc(get_node_at_path(root, current_path, path, FALSE).loc)

\* C32: for list(path) of a directory other than the root, the ".." entry
\* carries the created and modified timestamps of the directory's actual
\* parent in the tree, for relative paths from any current directory as well
\* as for drive-rooted paths.
C32_DotDotOfParent ==
    \A path \in StampPaths : ListsNonRoot(path) => DotDotOfParent(path)


---------------------------------------------------------------------------
(* C33.  Keys and name fields.                                              *)

\* the entry at a place below the root is kept under the key its name field
\* holds
KeyIsName(loc) == NodeAt(root, loc).name = loc[Len(loc)]

\* C33: in every reachable state, for every directory and every key k of its
\* child mapping, the name field of the child equals k (so that the name
\* fields within a directory are pairwise distinct), across create_directory,
\* write, the creation of intermediate directories, copy and rename.
C33_KeyIsName == \A loc \in Locs(root) \ {<<>>} : KeyIsName(loc)

\* a file stands in the root under the name A, which only a rename gives it,
\* and a directory stands two levels below the root
C33_Witness ==
    /\ HasKey(root.content, NAME_A)
    /\ Get(root.content, NAME_A).type = "file"
    /\ Get(root.content, NAME_A).name = NAME_A
    /\ \E loc \in DirLocs(root) : Len(loc) = 2


---------------------------------------------------------------------------
(* C34.  The shape of the current-directory sequence.                       *)

\* C34: after any sequence of change_directory calls, successful or not,
\* interleaved with the other operations, the current-directory sequence is
\* not empty and its first segment is the drive token C:, which occurs at
\* position 0 only; change_directory("..") at the root leaves the sequence
\* as it is.
C34_DriveFirstOnly ==
    /\ current_path # <<>>
    /\ current_path[1] = DRIVE
    /\ \A i \in 2..Len(current_path) : current_path[i] # DRIVE
    /\ current_path = <<DRIVE>> =>
          change_directory(root, current_path, DOTDOT).cp = <<DRIVE>>


---------------------------------------------------------------------------
(* C35.  The full path and the path.                                        *)

\* two resolutions give the same entry, or both give none
SameEntry(a, b) ==
    IF a.kind = "node" THEN b.kind = "node" /\ b.loc = a.loc
    ELSE b.kind # "node"

FullPathDenotes(path) ==
    SameEntry(resolve_path(root, current_path, path),
              resolve_path(root, current_path, get_full_path(current_path, path)))

\* C35: for every path p and every reachable state, resolving
\* get_full_path(p) yields the same node, or the same absence, as resolving
\* p: the full path shown for p denotes the entry the operation acts on.
C35_FullPathDenotes == \A path \in QueryPaths : FullPathDenotes(path)


---------------------------------------------------------------------------
(* C36.  The queries.                                                       *)

\* a step of one of the query operations
QueryStep ==
    \/ \E path \in QueryPaths : ResolvePath(path)
    \/ \E path \in ReadPaths : ReadFile(path)
    \/ \E path \in ListPaths : ListDirectory(path)
    \/ \E path \in TreePaths, show_files \in BOOLEAN : GenerateTree(path, show_files)
    \/ GetFreeSpace
    \/ GetCurrentPath
    \/ \E path \in QueryPaths : GetFullPath(path)

====
